---- MODULE Spec2Model ----
(***************************************************************************)
(* Model of sktime.transformations.series.filter.Filter: the constructor   *)
(* with its parameter validation and _transform, the adapter that flips a  *)
(* 2D (time, channel) array, calls mne.filter.filter_data and flips back.  *)
(***************************************************************************)
EXTENDS Integers, Sequences, FiniteSets

VARIABLES
    self,       \* the Filter object the caller holds (meaningful when raised = "ok")
    given,      \* the four arguments of the latest constructor call
    raised,     \* outcome of the latest constructor call
    is_fitted,  \* whether fit was called on the object
    last,       \* the latest transform call: input, what reached the routine, outcome
    memo,       \* one earlier transform call, kept for comparison
    since       \* transform calls made after the kept one (counted up to MaxSince)

vars == <<self, given, raised, is_fitted, last, memo, since>>

----------------------------------------------------------------------------
(* Bounds *)

MaxT == 2    \* time steps of an input array
MaxC == 2    \* channels of an input array
MaxP == 1    \* panel instances of a 3D input array
MaxSince == 2  \* calls counted after the kept one

----------------------------------------------------------------------------
(* Python values: a scalar carries its type name; kwargs is None or a dict  *)
(* given as its set of <<key, value>> items.                                *)

Val(kind, num, nan, items) == [kind |-> kind, num |-> num, nan |-> nan, items |-> items]

None == Val("NoneType", 0, FALSE, {})
IntV(n) == Val("int", n, FALSE, {})
FloatV(n) == Val("float", n, FALSE, {})
NaN == Val("float", 0, TRUE, {})
StrV(n) == Val("str", n, FALSE, {})
Dict(items) == Val("dict", 0, FALSE, items)

\* isinstance(v, classes)
isinstance(v, classes) == v.kind \in classes

\* a > b on Python numbers; any comparison with nan is False
Gt(a, b) == ~a.nan /\ ~b.nan /\ a.num > b.num

\* a < b on Python numbers
Lt(a, b) == ~a.nan /\ ~b.nan /\ a.num < b.num

Zero == IntV(0)

----------------------------------------------------------------------------
(* Filter.__init__ *)

Obj(sfreq, l_freq, h_freq, filter_kwargs) ==
    [sfreq |-> sfreq, l_freq |-> l_freq, h_freq |-> h_freq,
     filter_kwargs |-> filter_kwargs]

NoObject == Obj(None, None, None, None)

\* the isinstance conjunction of the first branch
TypesOk(sfreq, l_freq, h_freq) ==
    /\ isinstance(sfreq, {"int", "float"})
    /\ isinstance(l_freq, {"int", "float", "NoneType"})
    /\ isinstance(h_freq, {"int", "float", "NoneType"})

\* variant: an absent filter_kwargs is stored as an empty dict
StoreParams_DefaultKwargs(sfreq, l_freq, h_freq, filter_kwargs) ==
    Obj(sfreq, l_freq, h_freq,
        IF filter_kwargs = None THEN Dict({}) ELSE filter_kwargs)

\* the four attribute assignments
StoreParams(sfreq, l_freq, h_freq, filter_kwargs) ==
    Obj(sfreq, l_freq, h_freq, filter_kwargs)

\* variant: the cutoff checks run before the type check
Validate_ValueFirst(sfreq, l_freq, h_freq) ==
    IF (l_freq # None) /\ (h_freq # None)
          /\ (~(Gt(l_freq, Zero) /\ Gt(h_freq, Zero)) \/ Gt(l_freq, h_freq))
    THEN "ValueError"
    ELSE IF ~TypesOk(sfreq, l_freq, h_freq) THEN "TypeError"
    ELSE "ok"

\* variant: equal cutoffs are rejected (l_freq >= h_freq)
Validate_StrictOrder(sfreq, l_freq, h_freq) ==
    IF ~TypesOk(sfreq, l_freq, h_freq) THEN "TypeError"
    ELSE IF (l_freq # None) /\ (h_freq # None)
         THEN IF ~(Gt(l_freq, Zero) /\ Gt(h_freq, Zero)) THEN "ValueError"
              ELSE IF ~Lt(l_freq, h_freq) THEN "ValueError"
              ELSE "ok"
         ELSE "ok"

\* the error the validation raises, or "ok"
Validate(sfreq, l_freq, h_freq) ==
    IF ~TypesOk(sfreq, l_freq, h_freq) THEN "TypeError"
    ELSE IF (l_freq # None) /\ (h_freq # None)
         THEN IF ~(Gt(l_freq, Zero) /\ Gt(h_freq, Zero)) THEN "ValueError"
              ELSE IF Gt(l_freq, h_freq) THEN "ValueError"
              ELSE "ok"
         ELSE "ok"

__init__(sfreq, l_freq, h_freq, filter_kwargs) ==
    [self |-> StoreParams(sfreq, l_freq, h_freq, filter_kwargs),
     raised |-> Validate(sfreq, l_freq, h_freq)]

----------------------------------------------------------------------------
(* numpy arrays: a shape and the elements in row-major (C) order *)

Arr(shape, flat) == [shape |-> shape, flat |-> flat]

NoArray == Arr(<<>>, <<>>)

ndim(A) == Len(A.shape)

\* element [i][j] of a 2D array
At2(A, i, j) == A.flat[(i - 1) * A.shape[2] + j]

\* element [p][c][t] of a 3D array
At3(A, p, c, t) == A.flat[((p - 1) * A.shape[2] + (c - 1)) * A.shape[3] + t]

\* ndarray.transpose(): the axes reversed
transpose(A) ==
    IF ndim(A) = 2
    THEN LET rows == A.shape[2]
             cols == A.shape[1]
         IN Arr(<<rows, cols>>,
                [k \in 1..(rows * cols) |->
                    At2(A, ((k - 1) % cols) + 1, ((k - 1) \div cols) + 1)])
    ELSE IF ndim(A) = 3
    THEN LET d1 == A.shape[3]
             d2 == A.shape[2]
             d3 == A.shape[1]
         IN Arr(<<d1, d2, d3>>,
                [k \in 1..(d1 * d2 * d3) |->
                    At3(A, ((k - 1) % d3) + 1,
                           (((k - 1) \div d3) % d2) + 1,
                           ((k - 1) \div (d3 * d2)) + 1)])
    ELSE A

----------------------------------------------------------------------------
(* mne.filter.filter_data, the external routine: deterministic, filters    *)
(* along the last axis and keeps the shape; it rejects a sampling rate or  *)
(* cutoffs it cannot use.                                                  *)

Twice(v) == Val(v.kind, 2 * v.num, v.nan, v.items)

CutoffUsable(f, sfreq) == f = None \/ (Gt(f, Zero) /\ Lt(Twice(f), sfreq))

Gain(l_freq, h_freq, named) ==
    (IF <<"method", "iir">> \in named THEN 2 ELSE 1)
        * (IF h_freq = None /\ l_freq # None THEN -1 ELSE 1)

filter_data(data, sfreq, l_freq, h_freq, named) ==
    IF ~(Gt(sfreq, Zero) /\ CutoffUsable(l_freq, sfreq) /\ CutoffUsable(h_freq, sfreq))
    THEN [raised |-> "ValueError", result |-> NoArray]
    ELSE LET n == data.shape[ndim(data)]
             g == Gain(l_freq, h_freq, named)
         IN [raised |-> "ok",
             result |-> Arr(data.shape,
                 [k \in 1..Len(data.flat) |->
                     IF (k - 1) % n = 0 THEN data.flat[k]
                     ELSE data.flat[k] + g * data.flat[k - 1]])]

----------------------------------------------------------------------------
(* Filter._transform *)

NoArgs == [data |-> NoArray, sfreq |-> None, l_freq |-> None, h_freq |-> None,
           named |-> {}]

\* keyword names the call site already binds
BoundKeywords == {"sfreq", "l_freq", "h_freq"}

Keys(items) == {it[1] : it \in items}

\* variant: every input is flipped, whatever its number of axes
FlipIn_Always(X) == transpose(X)

\* the 2D case flips on the way in
FlipIn(X) == IF ndim(X) = 2 THEN transpose(X) ELSE X

\* variant: the result is returned as the routine laid it out
FlipOut_Skip(Xt) == Xt

\* a 2-axis result flips back
FlipOut(Xt) == IF ndim(Xt) = 2 THEN transpose(Xt) ELSE Xt

\* can `**kwargs` be expanded next to sfreq=, l_freq=, h_freq= ?
KwargsExpand(kwargs) ==
    /\ kwargs.kind = "dict"
    /\ Keys(kwargs.items) \cap BoundKeywords = {}

\* variant: the call clears the stored low cutoff
SelfAfter_ClearsLow(obj) == [obj EXCEPT !.l_freq = None]

\* the attributes after the call: _transform assigns none
SelfAfter(obj) == obj

_transform(obj, X) ==
    LET X1 == FlipIn(X)
        sfreq == obj.sfreq
        l_freq == obj.l_freq
        h_freq == obj.h_freq
        kwargs == obj.filter_kwargs
    IN IF ~KwargsExpand(kwargs)
       THEN [outcome |-> "TypeError", raised_by |-> "adapter", invoked |-> FALSE,
             routine_raised |-> "none", passed |-> NoArgs, routine_result |-> NoArray, out |-> NoArray,
             self |-> SelfAfter(obj)]
       ELSE LET args == [data |-> X1, sfreq |-> sfreq, l_freq |-> l_freq,
                         h_freq |-> h_freq, named |-> kwargs.items]
                r == filter_data(X1, sfreq, l_freq, h_freq, kwargs.items)
            IN IF r.raised # "ok"
               THEN [outcome |-> r.raised, raised_by |-> "routine", invoked |-> TRUE,
                     routine_raised |-> r.raised, passed |-> args, routine_result |-> NoArray, out |-> NoArray,
                     self |-> SelfAfter(obj)]
               ELSE [outcome |-> "ok", raised_by |-> "none", invoked |-> TRUE,
                     routine_raised |-> "none", passed |-> args, routine_result |-> r.result,
                     out |-> FlipOut(r.result), self |-> SelfAfter(obj)]

\* BaseTransformer.fit with fit_is_empty: nothing is learned
fit(obj) == obj

----------------------------------------------------------------------------
(* Inputs *)

SfreqInputs == {IntV(100), FloatV(-100), StrV(100), None}

FreqInputs == {None, IntV(-5), IntV(0), IntV(10), FloatV(40), IntV(50), NaN, StrV(10)}

KwargsInputs == {None, Dict({}), Dict({<<"method", "iir">>}), Dict({<<"sfreq", "16">>})}

Array2(T, C) == Arr(<<T, C>>, [k \in 1..(T * C) |-> k])

Array3(P, C, T) == Arr(<<P, C, T>>, [k \in 1..(P * C * T) |-> k])

\* every 2D shape up to (MaxT, MaxC), and the panels of full-size series
ArrayInputs ==
    {Array2(T, C) : T \in 1..MaxT, C \in 1..MaxC}
        \cup {Array3(P, MaxC, MaxT) : P \in 1..MaxP}

\* the configurations of the transform scenarios: the default filter_kwargs,
\* a band-pass, named options, cutoffs the routine rejects, a repeated
\* keyword, and two that fail construction
ConfigInputs ==
    { <<IntV(100), IntV(10), None, None>>,
      <<IntV(100), IntV(10), FloatV(40), Dict({})>>,
      <<IntV(100), IntV(10), None, Dict({<<"method", "iir">>})>>,
      <<IntV(100), None, FloatV(40), Dict({<<"method", "iir">>})>>,
      <<IntV(100), IntV(-5), None, Dict({})>>,
      <<IntV(100), IntV(10), FloatV(40), Dict({<<"sfreq", "16">>})>>,
      <<IntV(100), IntV(50), IntV(10), None>>,
      <<StrV(100), IntV(10), FloatV(40), None>> }

----------------------------------------------------------------------------
(* The caller's steps *)

NoCall == [called |-> FALSE, given |-> NoObject, fitted |-> FALSE, X |-> NoArray,
           res |-> [outcome |-> "ok", raised_by |-> "none", invoked |-> FALSE,
                    routine_raised |-> "none", passed |-> NoArgs, routine_result |-> NoArray, out |-> NoArray,
                    self |-> NoObject]]

Init ==
    /\ self = NoObject
    /\ given = NoObject
    /\ raised = "none"
    /\ is_fitted = FALSE
    /\ last = NoCall
    /\ memo = NoCall
    /\ since = 0

\* Filter(sfreq, l_freq, h_freq, filter_kwargs)
Construct(sfreq, l_freq, h_freq, filter_kwargs) ==
    LET r == __init__(sfreq, l_freq, h_freq, filter_kwargs)
    IN /\ given' = Obj(sfreq, l_freq, h_freq, filter_kwargs)
       /\ raised' = r.raised
       /\ self' = IF r.raised = "ok" THEN r.self ELSE NoObject
       /\ is_fitted' = FALSE
       /\ last' = NoCall
       /\ UNCHANGED <<memo, since>>

\* f.fit(X)
Fit ==
    /\ raised = "ok"
    /\ self' = fit(self)
    /\ is_fitted' = TRUE
    /\ UNCHANGED <<given, raised, last, memo, since>>

\* f.transform(X); the caller may keep the call for a later comparison
Transform(X) ==
    /\ raised = "ok"
    /\ LET r == _transform(self, X)
           call == [called |-> TRUE, given |-> given, fitted |-> is_fitted,
                    X |-> X, res |-> r]
       IN /\ self' = r.self
          /\ last' = call
          /\ \E keep \in BOOLEAN :
                /\ memo' = IF keep THEN call ELSE memo
                /\ since' = IF keep THEN 0
                            ELSE IF memo.called /\ since < MaxSince THEN since + 1
                            ELSE since
    /\ UNCHANGED <<given, raised, is_fitted>>

\* every constructor call over the input values
ConstructAny ==
    \E sfreq \in SfreqInputs, l_freq \in FreqInputs, h_freq \in FreqInputs,
       filter_kwargs \in KwargsInputs :
        Construct(sfreq, l_freq, h_freq, filter_kwargs)

\* the constructor calls of the transform scenarios
ConstructSome ==
    \E cfg \in ConfigInputs : Construct(cfg[1], cfg[2], cfg[3], cfg[4])

TransformAny == \E X \in ArrayInputs : Transform(X)

Next == ConstructSome \/ Fit \/ TransformAny

Spec == Init /\ [][Next]_vars

\* construction alone, over all input values
NextInit == ConstructAny

SpecInit == Init /\ [][NextInit]_vars

----------------------------------------------------------------------------
(* Properties *)

Numeric(v) == v.kind \in {"int", "float"}

NumericOrNone(v) == v.kind \in {"int", "float", "NoneType"}

Constructed == raised # "none"

\* a <= b on Python numbers; any comparison with nan is False
Le(a, b) == ~a.nan /\ ~b.nan /\ a.num <= b.num

\* C1: construction fails with a type error exactly when sfreq is not an int
\* or float, or l_freq or h_freq is neither an int, a float nor None,
\* whatever the other parameters are.
C1_TypeErrorIffWrongKind ==
    Constructed =>
        (raised = "TypeError"
            <=> (\/ ~Numeric(given.sfreq)
                 \/ ~NumericOrNone(given.l_freq)
                 \/ ~NumericOrNone(given.h_freq)))

\* a type error although the cutoffs alone would be a value error
C1_Witness ==
    /\ raised = "TypeError"
    /\ given.sfreq = StrV(100)
    /\ given.l_freq = IntV(50)
    /\ given.h_freq = IntV(10)

\* C2: with numeric sfreq and two numeric cutoffs, construction succeeds
\* iff l_freq > 0, h_freq > 0 and l_freq <= h_freq, and fails with a value
\* error otherwise.
C2_BothCutoffs ==
    (Constructed /\ Numeric(given.sfreq)
        /\ Numeric(given.l_freq) /\ Numeric(given.h_freq))
    => /\ raised \in {"ok", "ValueError"}
       /\ raised = "ok"
            <=> (/\ Gt(given.l_freq, Zero)
                 /\ Gt(given.h_freq, Zero)
                 /\ Le(given.l_freq, given.h_freq))

\* equal cutoffs are accepted
C2_Witness ==
    /\ raised = "ok"
    /\ given.l_freq = IntV(10)
    /\ given.h_freq = IntV(10)

\* C3: every constructed Filter has a positive sfreq and cutoffs that are
\* None or positive.
C3_ValidConfiguration ==
    raised = "ok" =>
        /\ Gt(self.sfreq, Zero)
        /\ (self.l_freq = None \/ Gt(self.l_freq, Zero))
        /\ (self.h_freq = None \/ Gt(self.h_freq, Zero))

\* C4: for a 2D input of shape (T, C) the routine receives the (C, T) array
\* with passed[c][t] = X[t][c], and the output has shape (T, C) with
\* output[t][c] = result[c][t].
C4_TwoAxes ==
    (last.called /\ ndim(last.X) = 2) =>
        LET T == last.X.shape[1]
            C == last.X.shape[2]
        IN /\ last.res.invoked =>
                /\ last.res.passed.data.shape = <<C, T>>
                /\ \A c \in 1..C, t \in 1..T :
                      At2(last.res.passed.data, c, t) = At2(last.X, t, c)
           /\ last.res.outcome = "ok" =>
                /\ last.res.out.shape = <<T, C>>
                /\ \A t \in 1..T, c \in 1..C :
                      At2(last.res.out, t, c) = At2(last.res.routine_result, c, t)

\* a 2 x 2 input went through the routine and back
C4_Witness ==
    /\ last.called
    /\ last.X.shape = <<2, 2>>
    /\ last.res.outcome = "ok"
    /\ last.res.out.flat # last.res.routine_result.flat

\* C5: a 3D input reaches the routine as it is, and the routine's 3-axis
\* result is returned as it is, so the output has the input's shape.
C5_ThreeAxes ==
    (last.called /\ ndim(last.X) = 3) =>
        /\ last.res.invoked => last.res.passed.data = last.X
        /\ last.res.outcome = "ok" =>
              /\ last.res.out = last.res.routine_result
              /\ last.res.out.shape = last.X.shape

\* a full-size panel was filtered
C5_Witness ==
    /\ last.called
    /\ last.X.shape = <<MaxP, MaxC, MaxT>>
    /\ last.res.outcome = "ok"

\* the routine would accept this configuration
RoutineAccepts(cfg) ==
    /\ Gt(cfg.sfreq, Zero)
    /\ CutoffUsable(cfg.l_freq, cfg.sfreq)
    /\ CutoffUsable(cfg.h_freq, cfg.sfreq)

\* C6: with filter_kwargs None the routine is invoked with the array, the
\* stored sfreq, l_freq, h_freq and no extra named option, and its result is
\* returned; with a dict exactly its items are forwarded.
C6_KwargsOptional ==
    last.called =>
        /\ last.given.filter_kwargs = None =>
              /\ last.res.invoked
              /\ last.res.passed.named = {}
              /\ last.res.passed.sfreq = last.given.sfreq
              /\ last.res.passed.l_freq = last.given.l_freq
              /\ last.res.passed.h_freq = last.given.h_freq
              /\ RoutineAccepts(last.given) => last.res.outcome = "ok"
        /\ (last.given.filter_kwargs.kind = "dict" /\ last.res.invoked) =>
              last.res.passed.named = last.given.filter_kwargs.items

\* C7: a transform call either returns the result or fails with the error the
\* routine raised; the adapter raises nothing of its own.
C7_OnlyRoutineErrors ==
    last.called =>
        /\ last.res.routine_raised # "none" =>
              /\ last.res.outcome = last.res.routine_raised
              /\ last.res.out = NoArray
        /\ last.res.outcome # "ok" => last.res.raised_by = "routine"
        /\ last.res.outcome = "ok" => last.res.out # NoArray

\* C8: two transform calls with the same input and the same configuration
\* have the same outcome and output, whatever was called in between.
C8_Deterministic ==
    (memo.called /\ last.called /\ memo.given = last.given /\ memo.X = last.X)
        => /\ memo.res.outcome = last.res.outcome
           /\ memo.res.out = last.res.out

\* the same call again, after other calls
C8_Witness ==
    /\ memo.called
    /\ last.called
    /\ since = MaxSince
    /\ memo.given = last.given
    /\ memo.X = last.X
    /\ last.res.outcome = "ok"
    /\ last.given.l_freq = IntV(10)

\* a configuration with usable frequencies and well-formed filter_kwargs
ValidFilter(cfg) ==
    /\ RoutineAccepts(cfg)
    /\ cfg.filter_kwargs = None \/ cfg.filter_kwargs.kind = "dict"
    /\ Keys(cfg.filter_kwargs.items) \cap BoundKeywords = {}

\* C9: for a valid Filter, transform without a prior fit succeeds and returns
\* what transform after fit returns.
C9_FitIsNoOp ==
    /\ (last.called /\ ~last.fitted /\ ValidFilter(last.given))
          => last.res.outcome = "ok"
    /\ (memo.called /\ last.called /\ memo.given = last.given
            /\ memo.X = last.X /\ memo.fitted # last.fitted)
          => /\ memo.res.outcome = last.res.outcome
             /\ memo.res.out = last.res.out

\* C10: a constructed Filter holds the four given values, also after
\* transform calls that returned or raised.
C10_StoredUnchanged ==
    raised = "ok" => self = given

\* after a transform call that raised, filter_kwargs is still the None given
C10_Witness ==
    /\ raised = "ok"
    /\ last.called
    /\ last.res.outcome # "ok"
    /\ given.filter_kwargs = None
    /\ self.filter_kwargs = None

====
